---- MODULE Spec2Model ----
(***************************************************************************)
(* Model of simu.py: the genome generator, the mutation operator, the      *)
(* generation simulator and the precaution block (tier classification and  *)
(* three-phase re-simulation).                                             *)
(*                                                                         *)
(* Rates and random draws are fixed-point numbers in units of 1/10000, so  *)
(* that rate*0.5 and rate*0.7 are exact for every rate the slider offers   *)
(* (multiples of 0.01).  The thresholds length*0.7 and length*0.3 are      *)
(* compared in tenths: total > length*0.7  <=>  10*total > 7*length.       *)
(***************************************************************************)
EXTENDS Integers, Sequences, FiniteSets, TLC

\* ---------------------------------------------------------------- bounds
\* Longest genome.
MaxLen == 1
\* Most generations in a direct call of simulate_generations.
MaxGen == 3
\* Most generations in a run of the precaution block.
MaxGenerations == 4

\* ------------------------------------------------------------- constants
\* 1.0 in fixed-point units: random.random() is in [0, 1), the slider in [0, 1].
ONE == 10000
\* 0.01, the floor of the adjusted rate.
RATE_FLOOR == 100
\* 0.3 and 0.15, the rate thresholds of the tiers.
RATE_HIGH == 3000
RATE_MODERATE == 1500
\* length * 0.7 and length * 0.3, in tenths.
HIGH_TENTHS == 7
MODERATE_TENTHS == 3
\* mutation_rate * 0.5 and mutation_rate * 0.7, in tenths.
HIGH_FACTOR == 5
MODERATE_FACTOR == 7

BASES == <<"A", "T", "C", "G">>

Max(a, b) == IF a > b THEN a ELSE b
Min(a, b) == IF a < b THEN a ELSE b

\* range(n): no iteration when n <= 0.
Range(n) == 1..Max(n, 0)

\* Values of random.random() that the model draws.
Draws == {0, ONE \div 2, ONE - 1}

\* Every genome of at most MaxLen bases.
Genomes == UNION {[1..n -> {BASES[k] : k \in 1..4}] : n \in 0..MaxLen}

\* Arguments of direct calls, valid and invalid.
LengthArgs == (0 - 1)..MaxLen
GenerationArgs == (0 - 1)..MaxGen
RateArgs == {0 - (ONE \div 2), 0, 5 * RATE_FLOOR, ONE, ONE + (ONE \div 2)}

\* Rates of the slider (0.0 to 1.0 in steps of 0.01) that the precaution runs use.
SliderRates == {0, RATE_FLOOR, 5 * RATE_FLOOR, RATE_MODERATE, RATE_HIGH, 40 * RATE_FLOOR, ONE}

\* ------------------------------------------------------------ pure parts
\* Variant: generate_genome drawing abs(length) symbols.
Generate_AbsLength(length, idx) ==
    [i \in 1..(IF length < 0 THEN 0 - length ELSE length) |->
        IF i \in DOMAIN idx THEN BASES[idx[i]] ELSE BASES[1]]
\* random.choices(BASES, k=length): idx are the k random indices.
generate_genome(length, idx) == [i \in Range(length) |-> BASES[idx[i]]]

\* choices = [b for b in BASES if b != base]
NotBase(base) == SelectSeq(BASES, LAMBDA b : b # base)

\* Variant: mutate_genome choosing the replacement among all of BASES.
Mutate_Resample(genome, mutation_rate, draws, picks) ==
    [i \in 1..Len(genome) |->
        IF draws[i] < mutation_rate THEN BASES[picks[i]] ELSE genome[i]]
\* mutate_genome: draws[i] is random.random() at position i, picks[i] the
\* index random.choice takes among the three other bases.
mutate_genome(genome, mutation_rate, draws, picks) ==
    [i \in 1..Len(genome) |->
        IF draws[i] < mutation_rate THEN NotBase(genome[i])[picks[i]] ELSE genome[i]]

\* sum(1 for a, b in zip(x, y) if a != b)
Diff(x, y) == Cardinality({k \in 1..Min(Len(x), Len(y)) : x[k] # y[k]})

\* ----------------------------------------------------------------- state
VARIABLES
    pc,         \* position of the program
    call,       \* the entry point that was called
    raised,     \* the exception the call raised, "None" when it returned
    gen,        \* generate_genome: argument and result
    mut,        \* mutate_genome: arguments, draws and result
    sim,        \* simulate_generations: arguments and locals
    gui         \* the button handler's variables

vars == <<pc, call, raised, gen, mut, sim, gui>>

NoGen == [length |-> 0, result |-> <<>>]
NoMut == [genome |-> <<>>, mutation_rate |-> 0, draws |-> <<>>, mutated |-> <<>>]
NoSim == [initial_genome |-> <<>>, generations |-> 0, mutation_rate |-> 0,
          current_genome |-> <<>>, genomes |-> <<>>, mutations |-> <<>>, rounds |-> 0]
NoGui == [length |-> 0, mutation_rate |-> 0, generations |-> 0, initial_genome |-> <<>>,
          mutation_total |-> 0, new_mutation_rate |-> 0, precaution_level |-> "None",
          plateau_gens |-> 0, repair_gens |-> 0, genomes2 |-> <<>>, mutations2 |-> <<>>,
          plateau_mutation |-> 0, plateau_genomes |-> <<>>, plateau_mutations |-> <<>>,
          decrease_mutations |-> <<>>, decrease_genomes |-> <<>>, current_mutation |-> 0,
          all_mutations2 |-> <<>>, all_genomes2 |-> <<>>]

Init ==
    /\ pc = "idle"
    /\ call = "None"
    /\ raised = "None"
    /\ gen = NoGen
    /\ mut = NoMut
    /\ sim = NoSim
    /\ gui = NoGui

\* ------------------------------------------------------- direct calls
CallGenerate ==
    /\ pc = "idle"
    /\ \E length \in LengthArgs :
       \E idx \in [Range(length) -> 1..4] :
          gen' = [length |-> length, result |-> generate_genome(length, idx)]
    /\ pc' = "done"
    /\ call' = "generate_genome"
    /\ UNCHANGED <<raised, mut, sim, gui>>

CallMutate ==
    /\ pc = "idle"
    /\ \E genome \in Genomes, mutation_rate \in RateArgs :
       \E draws \in [1..Len(genome) -> Draws], picks \in [1..Len(genome) -> 1..3] :
          mut' = [genome |-> genome, mutation_rate |-> mutation_rate, draws |-> draws,
                  mutated |-> mutate_genome(genome, mutation_rate, draws, picks)]
    /\ pc' = "done"
    /\ call' = "mutate_genome"
    /\ UNCHANGED <<raised, gen, sim, gui>>

\* Lines 27-29: the frame of a call of simulate_generations.
SimFrame(initial_genome, generations, mutation_rate) ==
    [initial_genome |-> initial_genome, generations |-> generations,
     mutation_rate |-> mutation_rate, current_genome |-> initial_genome,
     genomes |-> <<initial_genome>>, mutations |-> <<0>>, rounds |-> 0]

CallSimulate ==
    /\ pc = "idle"
    /\ \E initial_genome \in Genomes, generations \in GenerationArgs,
          mutation_rate \in RateArgs :
          sim' = SimFrame(initial_genome, generations, mutation_rate)
    /\ pc' = "simulate"
    /\ call' = "simulate_generations"
    /\ UNCHANGED <<raised, gen, mut, gui>>

\* Variant: SimulateRound counting the difference from initial_genome.
Round_DiffFromInitial ==
    /\ pc = "simulate"
    /\ sim.rounds < sim.generations
    /\ \E draws \in [1..Len(sim.current_genome) -> Draws],
          picks \in [1..Len(sim.current_genome) -> 1..3] :
          LET new_genome == mutate_genome(sim.current_genome, sim.mutation_rate, draws, picks)
              diff == Diff(sim.initial_genome, new_genome)
          IN sim' = [sim EXCEPT !.mutations = Append(@, @[Len(@)] + diff),
                                !.genomes = Append(@, new_genome),
                                !.current_genome = new_genome,
                                !.rounds = @ + 1]
    /\ UNCHANGED <<pc, call, raised, gen, mut, gui>>
\* One pass of the loop of lines 31-36.
SimulateRound ==
    /\ pc = "simulate"
    /\ sim.rounds < sim.generations
    /\ \E draws \in [1..Len(sim.current_genome) -> Draws],
          picks \in [1..Len(sim.current_genome) -> 1..3] :
          LET new_genome == mutate_genome(sim.current_genome, sim.mutation_rate, draws, picks)
              diff == Diff(sim.current_genome, new_genome)
          IN sim' = [sim EXCEPT !.mutations = Append(@, @[Len(@)] + diff),
                                !.genomes = Append(@, new_genome),
                                !.current_genome = new_genome,
                                !.rounds = @ + 1]
    /\ UNCHANGED <<pc, call, raised, gen, mut, gui>>

\* Variant: SimulateReturn leaving the loop one round early.
Return_OneRoundEarly ==
    /\ pc = "simulate"
    /\ call = "simulate_generations"
    /\ sim.rounds + 1 >= sim.generations
    /\ pc' = "done"
    /\ UNCHANGED <<call, raised, gen, mut, sim, gui>>
\* Line 38, for a direct call.
SimulateReturn ==
    /\ pc = "simulate"
    /\ call = "simulate_generations"
    /\ sim.rounds >= sim.generations
    /\ pc' = "done"
    /\ UNCHANGED <<call, raised, gen, mut, sim, gui>>

Next ==
    \/ CallGenerate
    \/ CallMutate
    \/ CallSimulate
    \/ SimulateRound
    \/ SimulateReturn

Spec == Init /\ [][Next]_vars

\* ------------------------------------------------- the precaution block
\* The totals simulate_generations can return for a genome of `length` bases
\* after `generations` rounds at `mutation_rate`.
Totals(length, generations, mutation_rate) ==
    IF mutation_rate <= 0 THEN {0}
    ELSE IF mutation_rate >= ONE THEN {length * generations}
    ELSE 0..(length * generations)

\* Lines 50-56 and 73: the inputs of the sliders, the initial genome and the
\* final count of the original run.  The slider offers 1 to 100 generations;
\* 0 is the degenerate run of no round.
InitGui ==
    /\ pc = "classify"
    /\ call = "button"
    /\ raised = "None"
    /\ gen = NoGen
    /\ mut = NoMut
    /\ sim = NoSim
    /\ \E length \in 1..MaxLen, generations \in 0..MaxGenerations,
          mutation_rate \in SliderRates :
       \E initial_genome \in [1..length -> {BASES[k] : k \in 1..4}],
          mutation_total \in Totals(length, generations, mutation_rate) :
          gui = [NoGui EXCEPT !.length = length, !.generations = generations,
                              !.mutation_rate = mutation_rate,
                              !.initial_genome = initial_genome,
                              !.mutation_total = mutation_total]

\* mutation_total > length * 0.7, mutation_total > length * 0.3
OverHigh(mutation_total, length) == 10 * mutation_total > HIGH_TENTHS * length
OverModerate(mutation_total, length) == 10 * mutation_total > MODERATE_TENTHS * length

\* mutation_rate * 0.5, mutation_rate * 0.7
Times(mutation_rate, tenths) == (mutation_rate * tenths) \div 10

\* Variant: Classify testing the Moderate condition before the High one.
Classify_ModerateFirst ==
    /\ pc = "classify"
    /\ \/ /\ OverModerate(gui.mutation_total, gui.length) \/ gui.mutation_rate > RATE_MODERATE
          /\ gui' = [gui EXCEPT
                !.new_mutation_rate = Max(RATE_FLOOR, Times(gui.mutation_rate, MODERATE_FACTOR)),
                !.precaution_level = "Moderate"]
       \/ /\ ~(OverModerate(gui.mutation_total, gui.length) \/ gui.mutation_rate > RATE_MODERATE)
          /\ OverHigh(gui.mutation_total, gui.length) \/ gui.mutation_rate > RATE_HIGH
          /\ gui' = [gui EXCEPT
                !.new_mutation_rate = Max(RATE_FLOOR, Times(gui.mutation_rate, HIGH_FACTOR)),
                !.precaution_level = "High"]
       \/ /\ ~(OverHigh(gui.mutation_total, gui.length) \/ gui.mutation_rate > RATE_HIGH)
          /\ ~(OverModerate(gui.mutation_total, gui.length) \/ gui.mutation_rate > RATE_MODERATE)
          /\ gui' = [gui EXCEPT
                !.new_mutation_rate = gui.mutation_rate,
                !.precaution_level = "Low"]
    /\ pc' = "guard"
    /\ UNCHANGED <<call, raised, gen, mut, sim>>
\* Variant: Classify without the floor max(0.01, ...).
Classify_NoFloor ==
    /\ pc = "classify"
    /\ \/ /\ OverHigh(gui.mutation_total, gui.length) \/ gui.mutation_rate > RATE_HIGH
          /\ gui' = [gui EXCEPT
                !.new_mutation_rate = Times(gui.mutation_rate, HIGH_FACTOR),
                !.precaution_level = "High"]
       \/ /\ ~(OverHigh(gui.mutation_total, gui.length) \/ gui.mutation_rate > RATE_HIGH)
          /\ OverModerate(gui.mutation_total, gui.length) \/ gui.mutation_rate > RATE_MODERATE
          /\ gui' = [gui EXCEPT
                !.new_mutation_rate = Times(gui.mutation_rate, MODERATE_FACTOR),
                !.precaution_level = "Moderate"]
       \/ /\ ~(OverHigh(gui.mutation_total, gui.length) \/ gui.mutation_rate > RATE_HIGH)
          /\ ~(OverModerate(gui.mutation_total, gui.length) \/ gui.mutation_rate > RATE_MODERATE)
          /\ gui' = [gui EXCEPT
                !.new_mutation_rate = gui.mutation_rate,
                !.precaution_level = "Low"]
    /\ pc' = "guard"
    /\ UNCHANGED <<call, raised, gen, mut, sim>>
\* Lines 73-111: the tier and the adjusted rate.
Classify ==
    /\ pc = "classify"
    /\ \/ /\ OverHigh(gui.mutation_total, gui.length) \/ gui.mutation_rate > RATE_HIGH
          /\ gui' = [gui EXCEPT
                !.new_mutation_rate = Max(RATE_FLOOR, Times(gui.mutation_rate, HIGH_FACTOR)),
                !.precaution_level = "High"]
       \/ /\ ~(OverHigh(gui.mutation_total, gui.length) \/ gui.mutation_rate > RATE_HIGH)
          /\ OverModerate(gui.mutation_total, gui.length) \/ gui.mutation_rate > RATE_MODERATE
          /\ gui' = [gui EXCEPT
                !.new_mutation_rate = Max(RATE_FLOOR, Times(gui.mutation_rate, MODERATE_FACTOR)),
                !.precaution_level = "Moderate"]
       \/ /\ ~(OverHigh(gui.mutation_total, gui.length) \/ gui.mutation_rate > RATE_HIGH)
          /\ ~(OverModerate(gui.mutation_total, gui.length) \/ gui.mutation_rate > RATE_MODERATE)
          /\ gui' = [gui EXCEPT
                !.new_mutation_rate = gui.mutation_rate,
                !.precaution_level = "Low"]
    /\ pc' = "guard"
    /\ UNCHANGED <<call, raised, gen, mut, sim>>

\* Line 114 false: lines 148-150, no adjusted run.
NoAdjustedRun ==
    /\ pc = "guard"
    /\ ~(gui.new_mutation_rate # gui.mutation_rate)
    /\ pc' = "done"
    /\ UNCHANGED <<call, raised, gen, mut, sim, gui>>

\* Variant: AdjustedCall with repair_gens = generations.
AdjustedCall_RepairAll ==
    /\ pc = "guard"
    /\ gui.new_mutation_rate # gui.mutation_rate
    /\ LET plateau_gens == gui.generations \div 2
           repair_gens == gui.generations
       IN /\ gui' = [gui EXCEPT !.plateau_gens = plateau_gens,
                                !.repair_gens = repair_gens]
          /\ sim' = SimFrame(gui.initial_genome, plateau_gens, gui.new_mutation_rate)
    /\ pc' = "simulate"
    /\ UNCHANGED <<call, raised, gen, mut>>
\* Line 114 true: lines 116-119, up to the call of simulate_generations.
AdjustedCall ==
    /\ pc = "guard"
    /\ gui.new_mutation_rate # gui.mutation_rate
    /\ LET plateau_gens == gui.generations \div 2
           repair_gens == gui.generations - plateau_gens
       IN /\ gui' = [gui EXCEPT !.plateau_gens = plateau_gens,
                                !.repair_gens = repair_gens]
          /\ sim' = SimFrame(gui.initial_genome, plateau_gens, gui.new_mutation_rate)
    /\ pc' = "simulate"
    /\ UNCHANGED <<call, raised, gen, mut>>

\* [x] * n
Repeat(x, n) == [k \in Range(n) |-> x]

\* Variant: Plateau repeating the first genome of the active phase.
Plateau_InitialGenome ==
    /\ pc = "simulate"
    /\ call = "button"
    /\ sim.rounds >= sim.generations
    /\ LET genomes2 == sim.genomes
           mutations2 == sim.mutations
           plateau_mutation == mutations2[Len(mutations2)]
       IN gui' = [gui EXCEPT
                !.genomes2 = genomes2,
                !.mutations2 = mutations2,
                !.plateau_mutation = plateau_mutation,
                !.plateau_genomes = Repeat(genomes2[1], gui.repair_gens \div 2),
                !.plateau_mutations = Repeat(plateau_mutation, gui.repair_gens \div 2),
                !.decrease_mutations = <<>>,
                !.decrease_genomes = <<>>,
                !.current_mutation = plateau_mutation]
    /\ pc' = "decay"
    /\ UNCHANGED <<call, raised, gen, mut, sim>>
\* Line 38 for the call of line 119, and lines 119-128: the plateau.
Plateau ==
    /\ pc = "simulate"
    /\ call = "button"
    /\ sim.rounds >= sim.generations
    /\ LET genomes2 == sim.genomes
           mutations2 == sim.mutations
           plateau_mutation == mutations2[Len(mutations2)]
       IN gui' = [gui EXCEPT
                !.genomes2 = genomes2,
                !.mutations2 = mutations2,
                !.plateau_mutation = plateau_mutation,
                !.plateau_genomes = Repeat(genomes2[Len(genomes2)], gui.repair_gens \div 2),
                !.plateau_mutations = Repeat(plateau_mutation, gui.repair_gens \div 2),
                !.decrease_mutations = <<>>,
                !.decrease_genomes = <<>>,
                !.current_mutation = plateau_mutation]
    /\ pc' = "decay"
    /\ UNCHANGED <<call, raised, gen, mut, sim>>

\* Variant: DecayPending with one pass too many.
Pending_OneMore ==
    Len(gui.decrease_mutations) < gui.repair_gens - Len(gui.plateau_mutations) + 1
\* Line 129: range(repair_gens - len(plateau_mutations)) has passes left.
DecayPending ==
    Len(gui.decrease_mutations) < gui.repair_gens - Len(gui.plateau_mutations)

\* Variant: DecayStep without max(0, ...).
DecayStep_NoClamp ==
    /\ pc = "decay"
    /\ DecayPending
    /\ IF gui.repair_gens = 0
       THEN /\ raised' = "ZeroDivisionError"
            /\ pc' = "failed"
            /\ UNCHANGED gui
       ELSE /\ LET current_mutation ==
                       gui.current_mutation
                                - Max(1, gui.plateau_mutation \div gui.repair_gens)
               IN gui' = [gui EXCEPT
                       !.current_mutation = current_mutation,
                       !.decrease_mutations = Append(@, current_mutation),
                       !.decrease_genomes = Append(@, gui.genomes2[Len(gui.genomes2)])]
            /\ UNCHANGED <<pc, raised>>
    /\ UNCHANGED <<call, gen, mut, sim>>
\* One pass of the loop of lines 129-133.  The floor division of line 131
\* raises ZeroDivisionError when repair_gens is 0.
DecayStep ==
    /\ pc = "decay"
    /\ DecayPending
    /\ IF gui.repair_gens = 0
       THEN /\ raised' = "ZeroDivisionError"
            /\ pc' = "failed"
            /\ UNCHANGED gui
       ELSE /\ LET current_mutation ==
                       Max(0, gui.current_mutation
                                - Max(1, gui.plateau_mutation \div gui.repair_gens))
               IN gui' = [gui EXCEPT
                       !.current_mutation = current_mutation,
                       !.decrease_mutations = Append(@, current_mutation),
                       !.decrease_genomes = Append(@, gui.genomes2[Len(gui.genomes2)])]
            /\ UNCHANGED <<pc, raised>>
    /\ UNCHANGED <<call, gen, mut, sim>>

\* Lines 136-137, after the loop.
Combine ==
    /\ pc = "decay"
    /\ ~DecayPending
    /\ gui' = [gui EXCEPT
            !.all_mutations2 = gui.mutations2 \o gui.plateau_mutations \o gui.decrease_mutations,
            !.all_genomes2 = gui.genomes2 \o gui.plateau_genomes \o gui.decrease_genomes]
    /\ pc' = "done"
    /\ UNCHANGED <<call, raised, gen, mut, sim>>

NextGui ==
    \/ Classify
    \/ NoAdjustedRun
    \/ AdjustedCall
    \/ SimulateRound
    \/ Plateau
    \/ DecayStep
    \/ Combine

SpecGui == InitGui /\ [][NextGui]_vars

\* ---------------------------------------------------------------- claims
RECURSIVE Hamming(_, _)
\* Number of positions at which two sequences of one length differ.
Hamming(x, y) ==
    IF x = <<>> \/ y = <<>> THEN 0
    ELSE (IF Head(x) = Head(y) THEN 0 ELSE 1) + Hamming(Tail(x), Tail(y))

BaseSet == {"A", "T", "C", "G"}

SimulateDone == pc = "done" /\ call = "simulate_generations"
ValidSimulate == sim.generations >= 0 /\ sim.mutation_rate >= 0 /\ sim.mutation_rate <= ONE

\* C1: for every initial sequence, generations >= 0 and rate in [0,1], the
\* History and the Trace that simulate_generations returns both have
\* generations+1 entries, History[0] is the initial sequence, Trace[0] is 0
\* and every History[i] is as long as the initial sequence.
C1_SimulateShape ==
    (SimulateDone /\ ValidSimulate) =>
        /\ Len(sim.genomes) = sim.generations + 1
        /\ Len(sim.mutations) = sim.generations + 1
        /\ sim.genomes[1] = sim.initial_genome
        /\ sim.mutations[1] = 0
        /\ \A i \in 1..Len(sim.genomes) : Len(sim.genomes[i]) = Len(sim.initial_genome)

C1_Witness ==
    /\ SimulateDone /\ ValidSimulate
    /\ sim.generations = MaxGen
    /\ Len(sim.initial_genome) = MaxLen
    /\ sim.genomes[Len(sim.genomes)] # sim.initial_genome

\* C2: in the result of simulate_generations, Trace[i] - Trace[i-1] is the
\* Hamming distance between History[i-1] and History[i] for every i from 1 to
\* generations, so the Trace never decreases and a step adds at most the
\* sequence length.
C2_TraceIsHamming ==
    SimulateDone =>
        \A i \in 2..Len(sim.mutations) :
            /\ i <= Len(sim.genomes)
            /\ sim.mutations[i] - sim.mutations[i - 1]
                  = Hamming(sim.genomes[i - 1], sim.genomes[i])
            /\ sim.mutations[i] >= sim.mutations[i - 1]
            /\ sim.mutations[i] - sim.mutations[i - 1] <= Len(sim.initial_genome)

\* A run that mutates a position and then mutates it back to the initial base:
\* both rounds count, though the last genome equals the initial one.
C2_Witness ==
    /\ SimulateDone
    /\ sim.generations >= 2
    /\ Len(sim.initial_genome) >= 1
    /\ sim.genomes[2] # sim.genomes[1]
    /\ sim.genomes[3] = sim.genomes[1]
    /\ sim.mutations[3] = 2 * Hamming(sim.genomes[1], sim.genomes[2])

MutateDone == pc = "done" /\ call = "mutate_genome"

\* C3: mutate_genome replaces the symbol at a position exactly when that
\* position's draw is less than the rate, the replacement is an alphabet
\* symbol different from the original; so rate 0 returns the sequence
\* unchanged and rate 1 a sequence that differs at every position.
C3_MutateByDraw ==
    MutateDone =>
        /\ Len(mut.mutated) = Len(mut.genome)
        /\ \A i \in 1..Len(mut.genome) :
              /\ mut.mutated[i] \in BaseSet
              /\ (mut.mutated[i] # mut.genome[i]) <=> (mut.draws[i] < mut.mutation_rate)
        /\ mut.mutation_rate = 0 => mut.mutated = mut.genome
        /\ mut.mutation_rate = ONE =>
              \A i \in 1..Len(mut.genome) : mut.mutated[i] # mut.genome[i]

C3_Witness ==
    /\ MutateDone
    /\ mut.mutation_rate = ONE
    /\ Len(mut.genome) = MaxLen
    /\ \A i \in 1..Len(mut.genome) : mut.mutated[i] # mut.genome[i]

\* A finished call whose arguments the specification calls invalid.
InvalidCall ==
    /\ pc = "done"
    /\ \/ call = "generate_genome" /\ gen.length <= 0
       \/ call = "mutate_genome" /\ (mut.mutation_rate < 0 \/ mut.mutation_rate > ONE)
       \/ call = "simulate_generations" /\ sim.generations < 0

Classified == call = "button" /\ pc # "classify"
\* The block has ended and has produced an adjusted run.
AdjustedRun == call = "button" /\ pc = "done" /\ gui.all_genomes2 # <<>>

C6_AdjustedShape ==
    /\ (call = "button" /\ pc = "done" /\ raised = "None"
            /\ gui.new_mutation_rate # gui.mutation_rate) => AdjustedRun
    /\ AdjustedRun =>
        /\ Len(gui.all_genomes2) = gui.generations + 1
        /\ Len(gui.all_mutations2) = gui.generations + 1
        /\ \A i \in 1..Len(gui.all_genomes2) :
              Len(gui.all_genomes2[i]) = Len(gui.initial_genome)

C6_Witness ==
    /\ AdjustedRun
    /\ gui.generations = MaxGenerations
    /\ gui.length = MaxLen
    /\ gui.plateau_mutations # <<>>
    /\ gui.decrease_mutations # <<>>

\* C7: no entry of an AdjustedTrace is negative and its last entry is at
\* most the plateau peak, the final count of the active phase.
C7_TraceBounded ==
    AdjustedRun =>
        /\ \A i \in 1..Len(gui.all_mutations2) : gui.all_mutations2[i] >= 0
        /\ gui.all_mutations2[Len(gui.all_mutations2)]
              <= gui.all_mutations2[gui.generations \div 2 + 1]

\* A decay that would go below zero: the peak is 0 and a decay slot follows.
C7_Witness ==
    /\ AdjustedRun
    /\ gui.all_mutations2[gui.generations \div 2 + 1] = 0
    /\ gui.decrease_mutations # <<>>
    /\ gui.all_mutations2[Len(gui.all_mutations2)] = 0

\* C8: the re-simulation never fails for degenerate inputs: with
\* generations 0 or 1 the plateau is empty and the decay is empty or a
\* single slot, and the decay step never divides by repair_gens = 0.
C8_NoZeroDivision ==
    call = "button" =>
        /\ raised = "None"
        /\ pc # "failed"
        /\ (pc = "decay" /\ DecayPending) => gui.repair_gens > 0
        /\ (AdjustedRun /\ gui.generations <= 1) =>
              /\ gui.repair_gens = gui.generations
              /\ gui.plateau_mutations = <<>> /\ gui.plateau_genomes = <<>>
              /\ Len(gui.decrease_mutations) = gui.generations
              /\ Len(gui.decrease_genomes) = gui.generations

\* The run of one generation: repair_gens is 1, no plateau, one decay slot.
C8_Witness ==
    /\ AdjustedRun
    /\ gui.generations = 1
    /\ gui.repair_gens = 1
    /\ Len(gui.decrease_mutations) = 1

RaisedTier == gui.precaution_level \in {"Moderate", "High"}

\* C9 as stated: whenever the tier is Moderate or High the adjusted rate is
\* strictly less than the input rate, so an adjusted run is produced.
C9_Original ==
    (Classified /\ RaisedTier) =>
        /\ gui.new_mutation_rate < gui.mutation_rate
        /\ pc = "done" => gui.all_genomes2 # <<>>

\* C9 amended: whenever the tier is Moderate or High the adjusted rate is
\* strictly less than the input rate exactly when the input rate exceeds
\* the floor 0.01; at the rate 0.01 the adjusted rate equals the input rate
\* and no adjusted run is produced.
C9_LowersAboveFloor ==
    (Classified /\ RaisedTier) =>
        /\ (gui.new_mutation_rate < gui.mutation_rate) <=> (100 * gui.mutation_rate > ONE)
        /\ 100 * gui.mutation_rate = ONE => gui.new_mutation_rate = gui.mutation_rate
        /\ pc = "done" => ((gui.all_genomes2 # <<>>) <=> (100 * gui.mutation_rate # ONE))

C9_Witness ==
    /\ Classified /\ RaisedTier
    /\ pc = "done"
    /\ gui.mutation_rate = RATE_FLOOR
    /\ gui.new_mutation_rate = gui.mutation_rate
    /\ gui.all_genomes2 = <<>>

====
